---- MODULE Spec2Model ----
(***************************************************************************)
(* Model of the "create an artifact, then bind it into a module" scripts   *)
(* of GeminiExchange:                                                      *)
(*   CreateAndBindRequirement.For_Gemini.py          (format = "JSON")     *)
(*   CreateAndBindRequirement.For_GeminiReturnV2.py  (RDF/XML)             *)
(*   CreateAndBindRequirement.For_GeminiReturnV4.py  (RDF/XML)             *)
(* The requirements server, its tracker job and a second client editing    *)
(* the same module structure are the environment.                          *)
(***************************************************************************)
EXTENDS Integers, Sequences, FiniteSets, TLC

(***************************************************************************)
(* Bounds of the model.                                                    *)
(***************************************************************************)
\* largest number of bindings below the root of the module at the start
MaxNodes == 2
\* largest number of edits of the structure by another client
MaxOtherEdits == 1
\* largest number of shapes the creation factory lists
MaxShapes == 2
\* largest number of bindings below the root of a structure that is walked
MaxWalkNodes == 5
\* largest number of bindings below the root of a structure that is walked
\* with one of its records missing
MaxDanglingNodes == 3
\* largest number of bindings below the root of a structure the element
\* walkers are run on
MaxIterNodes == 3
\* largest number of open levels of a stack whose section number is rendered
MaxLevels == 2
\* largest heading number and sub-number of such a stack
MaxCount == 3

(***************************************************************************)
(* Module structures.  A binding of the RDF/XML document is a record       *)
(*   [about, isHeading, boundArtifact, childBindings]                      *)
(* whose childBindings is the sequence of the contained Binding elements.  *)
(* A record of the JSON document is                                        *)
(*   [uri, isStructureRoot, isHeading, boundArtifact, childBindings]       *)
(* whose childBindings is the sequence of the uris of its children.        *)
(***************************************************************************)
structure_u == "structure"

NoArtifact == "-"

\* uri of the binding at pre-order position i of the initial structure
BindingUri(i) == "BI_" \o ToString(i)

\* artifact bound at pre-order position i of the initial structure
ArtifactUri(i) == "CA_" \o ToString(i)

\* pre-order depth sequences of the ordered forests of n nodes
Depths(n) ==
    { d \in [1..n -> 1..n] :
        /\ n >= 1 => d[1] = 1
        /\ \A i \in 2..n : d[i] <= d[i-1] + 1 }

\* end of the subtree that starts at position i: last position before the
\* next position of depth <= d[i]
RECURSIVE SubtreeEnd(_, _, _, _)
SubtreeEnd(d, i, j, n) ==
    IF j > n \/ d[j] <= d[i] THEN j - 1 ELSE SubtreeEnd(d, i, j + 1, n)

\* the Binding elements of positions lo..hi, as nested records
RECURSIVE Forest(_, _, _, _)
Forest(d, h, lo, hi) ==
    IF lo > hi THEN << >>
    ELSE LET e == SubtreeEnd(d, lo, lo + 1, hi)
         IN  << [about |-> BindingUri(lo),
                 isHeading |-> h[lo],
                 boundArtifact |-> ArtifactUri(lo),
                 childBindings |-> Forest(d, h, lo + 1, e)] >>
             \o Forest(d, h, e + 1, hi)

\* the root Binding of a structure
RootBinding(kids) ==
    [about |-> structure_u, isHeading |-> FALSE,
     boundArtifact |-> NoArtifact, childBindings |-> kids]

\* all structures with at most max bindings below the root
Structures(max) ==
    UNION { { RootBinding(Forest(d, h, 1, n)) :
                d \in Depths(n), h \in [1..n -> BOOLEAN] } : n \in 0..max }

\* the structure as the flat list the server serves for JSON: one record per
\* binding, the root's record flagged, children by uri
JsonOf(b, isroot) ==
    [uri |-> b.about, isStructureRoot |-> isroot, isHeading |-> b.isHeading,
     boundArtifact |-> b.boundArtifact,
     childBindings |-> [i \in 1..Len(b.childBindings) |-> b.childBindings[i].about]]

RECURSIVE JsonForest(_)
JsonForest(kids) ==
    IF kids = << >> THEN << >>
    ELSE << JsonOf(Head(kids), FALSE) >>
         \o JsonForest(Head(kids).childBindings) \o JsonForest(Tail(kids))

\* the orders in which the server may list the records: the root's record
\* first, or last
JsonDocuments(root) ==
    { << JsonOf(root, TRUE) >> \o JsonForest(root.childBindings),
      JsonForest(root.childBindings) \o << JsonOf(root, TRUE) >> }

\* the records of a JSON document with a given uri
RecordsOf(doc, u) == { i \in 1..Len(doc) : doc[i].uri = u }

\* the server reading a submitted JSON document back into bindings; a record
\* without isHeading (the client's new record) is not a heading
RECURSIVE BindingOfRecord(_, _)
BindingOfRecord(doc, u) ==
    LET r == doc[CHOOSE i \in RecordsOf(doc, u) : \A j \in RecordsOf(doc, u) : i <= j]
    IN  [about |-> u,
         isHeading |-> IF "isHeading" \in DOMAIN r THEN r.isHeading ELSE FALSE,
         boundArtifact |-> r.boundArtifact,
         childBindings |->
            [i \in 1..Len(r.childBindings) |->
                BindingOfRecord(doc, r.childBindings[i])]]

\* the uris of the bindings of a structure, in document order
RECURSIVE AboutsOf(_)
AboutsOf(kids) ==
    IF kids = << >> THEN << >>
    ELSE << Head(kids).about >> \o AboutsOf(Head(kids).childBindings)
         \o AboutsOf(Tail(kids))

SeqToSet(s) == { s[i] : i \in 1..Len(s) }

\* the durable uri the server gives to the binding added by update number v
ServerUri(v) == "BI_v" \o ToString(v)

\* the server storing a submitted structure: a binding whose uri it does not
\* know (the client's placeholder) gets a durable uri
RECURSIVE Stored(_, _, _)
Stored(kids, known, v) ==
    [i \in 1..Len(kids) |->
        [about |-> IF kids[i].about \in known THEN kids[i].about ELSE ServerUri(v),
         isHeading |-> kids[i].isHeading,
         boundArtifact |-> kids[i].boundArtifact,
         childBindings |-> Stored(kids[i].childBindings, known, v)]]

StoredStructure(root, old, v) ==
    RootBinding(Stored(root.childBindings, SeqToSet(AboutsOf(old.childBindings)), v))

(***************************************************************************)
(* State.                                                                  *)
(***************************************************************************)
VARIABLES
    script,         \* which of the three scripts runs
    artifact_type,  \* sys.argv[1] / args.artifact_type
    pc,             \* the statement the script is at
    exit_code,      \* exit code of the process, -1 while it runs
    sent,           \* the requests the script has sent, in order
    thefolder,      \* the folder found for the folder path
    theshape_u,     \* the shape chosen for the creation
    theartifact_u,  \* Location of the created artifact
    theid,          \* identifier read back from the created artifact
    modules,        \* result of the module query
    toinsert_u,     \* uri of the artifact to bind
    modstructure,   \* the structure document held by the script
    etag,           \* the ETag held by the script
    response,       \* the response to the structure update
    srvStructure,   \* server: the module structure
    srvEtag,        \* server: the ETag of the module structure
    srvArtifacts,   \* server: the artifacts created by the script
    tracker,        \* server: state of the update job
    pending,        \* server: the structure an accepted update waits to store
    otherEdits,     \* number of edits made by the other client
    entries,        \* outline walk: the JSON document that is walked
    it,             \* outline walk: the events the iterator has yet to yield
    level,          \* outline walk: the indentation level
    headinglevel,   \* outline walk: one [heading number, sub-number] per open level
    printed,        \* outline walk: the section numbers printed so far
    xmlroot,        \* element walkers: the element the walker was made for
    tags,           \* element walkers: the tags argument
    events,         \* element walkers: the events argument
    stack,          \* iterwalk: the stack shared by all calls of its iterator
    yielded,        \* element walkers: the pairs the running call has yielded
    runs,           \* element walkers: what each finished call has yielded
    shapes          \* shape lookup: the titles of the shapes of the factory, in its order

clientVars == << script, artifact_type, pc, exit_code, sent, thefolder, theshape_u,
                 theartifact_u, theid, modules, toinsert_u, modstructure,
                 etag, response >>
serverVars == << srvStructure, srvEtag, srvArtifacts, tracker, pending, otherEdits >>
walkVars == << entries, it, level, headinglevel, printed >>
iterVars == << xmlroot, tags, events, stack, yielded, runs >>
vars == << clientVars, serverVars, walkVars, iterVars, shapes >>

Gemini == "For_Gemini"
ReturnV2 == "For_GeminiReturnV2"
ReturnV4 == "For_GeminiReturnV4"
Scripts == { Gemini, ReturnV2, ReturnV4 }

\* For_Gemini.py fixes the wire form of the structure
format == "JSON"

\* the run handles the structure as a JSON document (For_Gemini.py), not as
\* an RDF/XML document (V2 and V4)
UsesJson == script = Gemini /\ format = "JSON"

None == "None"
NoResponse == [status_code |-> 0, Location |-> None]

\* no element walker was made
IterIdle ==
    /\ xmlroot = << >>
    /\ tags = None
    /\ events = None
    /\ stack = << >>
    /\ yielded = << >>
    /\ runs = << >>

\* no outline walk is in progress
WalkIdle ==
    /\ entries = << >>
    /\ it = << >>
    /\ level = 0
    /\ headinglevel = << >>
    /\ printed = << >>

Init ==
    /\ script \in Scripts
    /\ artifact_type \in { "Requirement", "Heading" }
    /\ pc = "find_folder"
    /\ exit_code = -1
    /\ sent = << >>
    /\ thefolder = None
    /\ theshape_u = None
    /\ theartifact_u = None
    /\ theid = None
    /\ modules = << >>
    /\ toinsert_u = None
    /\ modstructure = << >>
    /\ etag = 0
    /\ response = NoResponse
    /\ srvStructure \in Structures(MaxNodes)
    /\ srvEtag = 1
    /\ srvArtifacts = {}
    /\ tracker = "none"
    /\ pending = << >>
    /\ otherEdits = 0
    /\ WalkIdle
    /\ IterIdle
    /\ shapes = << >>

Request(method, target) == [method |-> method, target |-> target]

\* an exception ends the run: the V2 and V4 scripts catch it and call
\* sys.exit(1); For_Gemini.py does not catch it and the interpreter exits 1
Raise ==
    /\ pc' = "done"
    /\ exit_code' = 1

(***************************************************************************)
(* Creation of the artifact.                                               *)
(***************************************************************************)
\* c.find_folder(folder_path)
find_folder ==
    /\ pc = "find_folder"
    /\ sent' = Append(sent, Request("GET", "folder"))
    /\ thefolder' \in { None, "folder" }
    /\ IF thefolder' = None THEN Raise ELSE pc' = "find_shape" /\ UNCHANGED exit_code
    /\ UNCHANGED << script, artifact_type, theshape_u, theartifact_u, theid, modules,
                    toinsert_u, modstructure, etag, response, serverVars, walkVars, iterVars, shapes >>

ShapeTitles == { "Requirement", "Heading", "requirement" }
ShapeLists == UNION { [1..n -> ShapeTitles] : n \in 0..MaxShapes }
ShapeUri(i) == "shape" \o ToString(i)

\* a title without regard to case
Casefold(t) == IF t = "requirement" THEN "Requirement" ELSE t

\* as Matching, but titles are compared without regard to case
MatchingAnyCase(titles, type) ==
    { i \in 1..Len(titles) : Casefold(titles[i]) = Casefold(type) }

\* positions of the shapes whose title equals the type
Matching(titles, type) == { i \in 1..Len(titles) : titles[i] = type }

\* the loop over the shapes: V2 and V4 break at the first match, For_Gemini.py
\* keeps looping and ends with the last match
ChosenShape(s, titles, type) ==
    LET m == Matching(titles, type)
    IN  IF m = {} THEN None
        ELSE IF s = Gemini THEN ShapeUri(CHOOSE i \in m : \A j \in m : j <= i)
        ELSE ShapeUri(CHOOSE i \in m : \A j \in m : i <= j)

find_shape ==
    /\ pc = "find_shape"
    /\ sent' = sent \o << Request("GET", "factory"), Request("GET", "shapes") >>
    /\ \E titles \in ShapeLists :
          /\ theshape_u' = ChosenShape(script, titles, artifact_type)
          /\ IF theshape_u' = None THEN Raise ELSE pc' = "post_artifact" /\ UNCHANGED exit_code
    /\ UNCHANGED << script, artifact_type, thefolder, theartifact_u, theid, modules,
                    toinsert_u, modstructure, etag, response, serverVars, walkVars, iterVars, shapes >>

\* the script at the loop over the shapes of a factory whose list is known
InitShape ==
    /\ script \in Scripts
    /\ artifact_type \in { "Requirement", "Heading" }
    /\ pc = "shape_lookup"
    /\ exit_code = -1
    /\ sent = << Request("GET", "folder") >>
    /\ thefolder = "folder"
    /\ theshape_u = None
    /\ theartifact_u = None
    /\ theid = None
    /\ modules = << >>
    /\ toinsert_u = None
    /\ modstructure = << >>
    /\ etag = 0
    /\ response = NoResponse
    /\ srvStructure = RootBinding(<< >>)
    /\ srvEtag = 1
    /\ srvArtifacts = {}
    /\ tracker = "none"
    /\ pending = << >>
    /\ otherEdits = 0
    /\ WalkIdle
    /\ IterIdle
    /\ shapes \in ShapeLists

\* the loop over the shapes and the test that follows it
shape_lookup ==
    /\ pc = "shape_lookup"
    /\ sent' = sent \o << Request("GET", "factory"), Request("GET", "shapes") >>
    /\ theshape_u' = ChosenShape(script, shapes, artifact_type)
    /\ IF theshape_u' = None THEN Raise ELSE pc' = "post_artifact" /\ UNCHANGED exit_code
    /\ UNCHANGED << script, artifact_type, thefolder, theartifact_u, theid, modules,
                    toinsert_u, modstructure, etag, response, serverVars, walkVars,
                    iterVars, shapes >>

SpecShape == InitShape /\ [][shape_lookup]_vars

HeadingMarkers == { "heading", "Text" }

\* the rdf:type elements of the creation payload
PayloadTypes(s, type) ==
    { "Requirement" } \cup
    CASE s = Gemini   -> IF "Requirement" = type THEN {} ELSE HeadingMarkers
      [] s = ReturnV2 -> IF type = "Heading" THEN HeadingMarkers ELSE {}
      [] s = ReturnV4 -> {}

Payload(s, type, shape) ==
    [types |-> PayloadTypes(s, type), instanceShape |-> shape, parent |-> "folder"]

NewArtifactUri == "CA_new"
NewArtifactId == "4711"

\* as CreationAccepted, but any status passes
CreationUnchecked(status_code) == TRUE

\* the test on the status of the creation
CreationAccepted(status_code) == status_code = 201

\* POST of the payload to the factory; any status but 201 is an error.  The
\* server answers 201 with the Location of the artifact it has created, or
\* refuses and creates nothing.
post_artifact ==
    /\ pc = "post_artifact"
    /\ sent' = Append(sent, Request("POST", "factory"))
    /\ \E status_code \in { 201, 403 } :
          /\ srvArtifacts' =
                IF status_code = 201
                THEN srvArtifacts \cup
                        { [uri |-> NewArtifactUri, identifier |-> NewArtifactId,
                           payload |-> Payload(script, artifact_type, theshape_u)] }
                ELSE srvArtifacts
          /\ IF ~ CreationAccepted(status_code)
             THEN Raise /\ UNCHANGED theartifact_u
             ELSE /\ theartifact_u' = IF status_code = 201 THEN NewArtifactUri ELSE None
                  /\ pc' = "get_identifier"
                  /\ UNCHANGED exit_code
    /\ UNCHANGED << script, artifact_type, thefolder, theshape_u, theid, modules, toinsert_u,
                    modstructure, etag, response,
                    srvStructure, srvEtag, tracker, pending, otherEdits, walkVars, iterVars, shapes >>

\* GET of the new artifact and reading its dcterms:identifier; without the
\* element, .text raises
get_identifier ==
    /\ pc = "get_identifier"
    /\ sent' = Append(sent, Request("GET", "artifact"))
    /\ \E found \in { None, NewArtifactId } :
          IF found = None THEN Raise /\ UNCHANGED theid
          ELSE theid' = found /\ pc' = "find_module" /\ UNCHANGED exit_code
    /\ UNCHANGED << script, artifact_type, thefolder, theshape_u, theartifact_u, modules,
                    toinsert_u, modstructure, etag, response, serverVars, walkVars, iterVars, shapes >>

(***************************************************************************)
(* Lookup of the module and of the artifact to bind.                       *)
(***************************************************************************)
ModuleResults == { << >>, << "MD_1" >>, << "MD_1", "MD_2" >> }

\* OSLC query for the module; For_Gemini.py raises on more than one match,
\* V2 and V4 log a warning and take the first
find_module ==
    /\ pc = "find_module"
    /\ \E found \in ModuleResults :
          /\ modules' = found
          /\ IF Len(found) = 0 \/ (script = Gemini /\ Len(found) > 1)
             THEN /\ Raise
                  /\ sent' = Append(sent, Request("QUERY", "modules"))
             ELSE /\ pc' = IF script = ReturnV4 THEN "get_structure" ELSE "find_artifact"
                  /\ sent' = sent \o << Request("QUERY", "modules") >>
                               \o (IF script = Gemini THEN << Request("GET", "module") >>
                                   ELSE << >>)
                  /\ UNCHANGED exit_code
    /\ UNCHANGED << script, artifact_type, thefolder, theshape_u, theartifact_u, theid, toinsert_u,
                    modstructure, etag, response, serverVars, walkVars, iterVars, shapes >>

\* OSLC query for the artifact with the identifier just read (For_Gemini.py
\* and V2); a new artifact has no other artifact sharing its identifier
find_artifact ==
    /\ pc = "find_artifact"
    /\ sent' = Append(sent, Request("QUERY", "artifact"))
    /\ \E toinserts \in { << >>, << theartifact_u >> } :
          IF Len(toinserts) = 0 THEN Raise /\ UNCHANGED toinsert_u
          ELSE toinsert_u' = toinserts[1] /\ pc' = "get_structure" /\ UNCHANGED exit_code
    /\ UNCHANGED << script, artifact_type, thefolder, theshape_u, theartifact_u, theid, modules,
                    modstructure, etag, response, serverVars, walkVars, iterVars, shapes >>

(***************************************************************************)
(* Read, change and write of the module structure.                         *)
(***************************************************************************)
\* as IsStructureRoot, but any record passes
RootUnchecked(rec) == TRUE

\* the test on the first record of the JSON document
IsStructureRoot(rec) == rec.isStructureRoot

\* GET of the structure.  V2 and V4 get the RDF/XML document and its ETag
\* from one response.  For_Gemini.py gets the JSON document alone and checks
\* that its first record is the root.
get_structure ==
    /\ pc = "get_structure"
    /\ IF UsesJson
       THEN /\ sent' = Append(sent, Request("GET", "structure"))
            /\ modstructure' \in JsonDocuments(srvStructure)
            /\ UNCHANGED etag
            /\ IF ~ IsStructureRoot(modstructure'[1])
               THEN Raise ELSE pc' = "get_etag" /\ UNCHANGED exit_code
       ELSE /\ sent' = sent \o << Request("GET", "module"), Request("GET", "structure") >>
            /\ modstructure' = srvStructure
            /\ etag' = srvEtag
            /\ pc' = "insert_binding"
            /\ UNCHANGED exit_code
    /\ UNCHANGED << script, artifact_type, thefolder, theshape_u, theartifact_u, theid, modules,
                    toinsert_u, response, serverVars, walkVars, iterVars, shapes >>

\* For_Gemini.py: a second GET of the structure, for its ETag alone
get_etag ==
    /\ pc = "get_etag"
    /\ script = Gemini
    /\ sent' = Append(sent, Request("GET", "structure"))
    /\ etag' = srvEtag
    /\ pc' = "insert_binding"
    /\ UNCHANGED << script, artifact_type, thefolder, exit_code, theshape_u, theartifact_u, theid,
                    modules, toinsert_u, modstructure, response, serverVars, walkVars, iterVars, shapes >>

\* rdfxml.xml_find_elements on the structure document: the childBindings
\* containers a path selects, in document order.  A container is named by
\* the position of its Binding among the root's children, 0 for the root's
\* own container.  Every Binding has a childBindings element (rdf:nil when it
\* has no child).
xml_find_elements(root, path) ==
    CASE path = "Binding/childBindings" -> << 0 >>
      [] path = "Binding/childBindings/Binding/childBindings" ->
            [i \in 1..Len(root.childBindings) |-> i]

\* the children of a container
ContainerOf(root, c) ==
    IF c = 0 THEN root.childBindings ELSE root.childBindings[c].childBindings

\* as AppendTo, but the binding becomes the first child
AppendPrepends(root, c, binding) ==
    IF c = 0 THEN [root EXCEPT !.childBindings = << binding >> \o @]
    ELSE [root EXCEPT !.childBindings[c].childBindings = << binding >> \o @]

\* container.append(binding) of lxml
AppendTo(root, c, binding) ==
    IF c = 0 THEN [root EXCEPT !.childBindings = Append(@, binding)]
    ELSE [root EXCEPT !.childBindings[c].childBindings = Append(@, binding)]

\* the path each RDF/XML script looks the insertion point up with
InsertionPath(s) ==
    IF s = ReturnV4 THEN "Binding/childBindings/Binding/childBindings"
    ELSE "Binding/childBindings"

\* uri of the new binding: rdf:about="" in V2 and V4, a fixed uri in
\* For_Gemini.py
tempbinding_u == "structure#1"
EmptyAbout == ""

\* the Binding element V2 and V4 build; it has no isHeading element, which
\* reads as not a heading
new_binding_xml(artifact) ==
    [about |-> EmptyAbout, isHeading |-> FALSE,
     boundArtifact |-> artifact, childBindings |-> << >>]

\* the record For_Gemini.py builds
newbinding(artifact) ==
    [uri |-> tempbinding_u, type |-> "dng_module:Binding",
     boundArtifact |-> artifact, childBindings |-> << >>]

\* as InsertJson, but the uri goes to the front of the child list
InsertJsonPrepends(doc, artifact) ==
    Append([doc EXCEPT ![1].childBindings = << tempbinding_u >> \o @],
           newbinding(artifact))

\* as InsertJson, but the uri also goes to the child list of the last record
InsertJsonShared(doc, artifact) ==
    Append([i \in 1..Len(doc) |->
               IF i = 1 \/ i = Len(doc)
               THEN [doc[i] EXCEPT !.childBindings = Append(@, tempbinding_u)]
               ELSE doc[i]],
           newbinding(artifact))

\* For_Gemini.py: the uri goes to the end of the child list of the first
\* record, the record to the end of the list
InsertJson(doc, artifact) ==
    Append([doc EXCEPT ![1].childBindings = Append(@, tempbinding_u)],
           newbinding(artifact))

\* V4 binds the Location of the creation, the others the uri they queried
ArtifactToBind == IF script = ReturnV4 THEN theartifact_u ELSE toinsert_u

\* the change of the document held by the script
insert_binding ==
    /\ pc = "insert_binding"
    /\ IF UsesJson
       THEN /\ modstructure' = InsertJson(modstructure, ArtifactToBind)
            /\ pc' = "put_structure"
            /\ UNCHANGED exit_code
       ELSE LET insertion_point == xml_find_elements(modstructure, InsertionPath(script))
            IN  IF Len(insertion_point) = 0
                THEN Raise /\ UNCHANGED modstructure
                ELSE /\ modstructure' = AppendTo(modstructure, insertion_point[1],
                                                 new_binding_xml(ArtifactToBind))
                     /\ pc' = "put_structure"
                     /\ UNCHANGED exit_code
    /\ UNCHANGED << script, artifact_type, thefolder, sent, theshape_u, theartifact_u, theid,
                    modules, toinsert_u, etag, response, serverVars, walkVars, iterVars, shapes >>

\* as IfMatch, but no header is sent
NoIfMatch(e) == 0

\* the If-Match header of the update: the ETag held by the script
IfMatch(e) == e

\* the structure a submitted document describes, as the server reads it
Submitted(doc) ==
    IF UsesJson THEN BindingOfRecord(doc, structure_u) ELSE doc

\* what the server can do with an update whose precondition holds: store it
\* at once, accept it for a tracked job (with or without telling where the
\* job is), or refuse it
UpdateOutcomes == { "stored", "accepted", "accepted_untracked", "refused" }

\* PUT of the changed document with If-Match.  The server answers 412 and
\* stores nothing when the header names another ETag than the structure's.
\* The transport hands a failure status to the script or raises.
put_structure ==
    /\ pc = "put_structure"
    /\ sent' = Append(sent, Request("PUT", "structure"))
    /\ LET header == IfMatch(etag)
       IN  IF header # 0 /\ header # srvEtag
           THEN /\ response' = [status_code |-> 412, Location |-> None]
                /\ UNCHANGED << srvStructure, srvEtag, tracker, pending >>
           ELSE \E outcome \in UpdateOutcomes :
                  CASE outcome = "stored" ->
                         /\ response' = [status_code |-> 200, Location |-> None]
                         /\ srvStructure' = StoredStructure(Submitted(modstructure),
                                                            srvStructure, srvEtag + 1)
                         /\ srvEtag' = srvEtag + 1
                         /\ UNCHANGED << tracker, pending >>
                    [] outcome \in { "accepted", "accepted_untracked" } ->
                         /\ response' = [status_code |-> 202,
                                         Location |-> IF outcome = "accepted"
                                                      THEN "tracker" ELSE None]
                         /\ tracker' = "running"
                         /\ pending' = Submitted(modstructure)
                         /\ UNCHANGED << srvStructure, srvEtag >>
                    [] outcome = "refused" ->
                         /\ response' = [status_code |-> 403, Location |-> None]
                         /\ UNCHANGED << srvStructure, srvEtag, tracker, pending >>
    /\ \E raised \in BOOLEAN :
          IF raised /\ response'.status_code \notin { 200, 201, 202 }
          THEN Raise ELSE pc' = "check_status" /\ UNCHANGED exit_code
    /\ UNCHANGED << script, artifact_type, thefolder, theshape_u, theartifact_u, theid, modules,
                    toinsert_u, modstructure, etag, srvArtifacts, otherEdits, walkVars, iterVars, shapes >>

\* as NeedsWait, but every answer is waited on
NeedsWaitAlways(r) == TRUE

\* the test that sends the script into the wait for the job
NeedsWait(r) == r.status_code = 202 /\ r.Location # None

\* as check_status, but a failed update is tried again from the GET
check_status_retries ==
    /\ pc = "check_status"
    /\ IF response.status_code \notin { 200, 201, 202 }
       THEN pc' = "get_structure"
       ELSE pc' = IF NeedsWait(response) THEN "wait_for_tracker" ELSE "finish"
    /\ UNCHANGED << script, artifact_type, thefolder, exit_code, sent, theshape_u, theartifact_u,
                    theid, modules, toinsert_u, modstructure, etag, response,
                    serverVars, walkVars, iterVars, shapes >>

\* V2 and V4 raise on a status outside 200, 201, 202; For_Gemini.py only
\* prints the status.  All wait for the tracker on 202 with a Location.
check_status ==
    /\ pc = "check_status"
    /\ IF script # Gemini /\ response.status_code \notin { 200, 201, 202 }
       THEN Raise
       ELSE /\ pc' = IF NeedsWait(response) THEN "wait_for_tracker" ELSE "finish"
            /\ UNCHANGED exit_code
    /\ UNCHANGED << script, artifact_type, thefolder, sent, theshape_u, theartifact_u, theid,
                    modules, toinsert_u, modstructure, etag, response, serverVars, walkVars, iterVars, shapes >>

\* c.wait_for_tracker polls until the job has ended; its result is not looked at
wait_for_tracker ==
    /\ pc = "wait_for_tracker"
    /\ tracker \in { "complete", "failed" }
    /\ sent' = Append(sent, Request("GET", "tracker"))
    /\ pc' = "finish"
    /\ UNCHANGED << script, artifact_type, thefolder, exit_code, theshape_u, theartifact_u, theid,
                    modules, toinsert_u, modstructure, etag, response, serverVars, walkVars, iterVars, shapes >>

\* For_Gemini.py gets the structure again and calls sys.exit(0); V2 and V4
\* print that the artifact is bound and return
finish ==
    /\ pc = "finish"
    /\ IF UsesJson
       THEN /\ sent' = Append(sent, Request("GET", "structure"))
            /\ modstructure' \in JsonDocuments(srvStructure)
       ELSE UNCHANGED << sent, modstructure >>
    /\ pc' = "done"
    /\ exit_code' = 0
    /\ UNCHANGED << script, artifact_type, thefolder, theshape_u, theartifact_u, theid, modules,
                    toinsert_u, etag, response, serverVars, walkVars, iterVars, shapes >>

(***************************************************************************)
(* The environment.                                                        *)
(***************************************************************************)
\* the job of an accepted update ends: it stores the structure, or fails
TrackerEnds ==
    /\ tracker = "running"
    /\ \/ /\ tracker' = "complete"
          /\ srvStructure' = StoredStructure(pending, srvStructure, srvEtag + 1)
          /\ srvEtag' = srvEtag + 1
       \/ /\ tracker' = "failed"
          /\ UNCHANGED << srvStructure, srvEtag >>
    /\ UNCHANGED << clientVars, srvArtifacts, pending, otherEdits, walkVars, iterVars, shapes >>

OtherArtifact == "CA_other"

\* another client binds an artifact of its own: at the end of the root's
\* children or of the children of the first binding below the root
OtherClientEdit ==
    /\ exit_code = -1
    /\ otherEdits < MaxOtherEdits
    /\ tracker # "running"
    /\ \E c \in { 0 } \cup { i \in { 1 } : Len(srvStructure.childBindings) >= 1 } :
          srvStructure' =
             AppendTo(srvStructure, c,
                      [about |-> ServerUri(srvEtag + 1), isHeading |-> FALSE,
                       boundArtifact |-> OtherArtifact, childBindings |-> << >>])
    /\ srvEtag' = srvEtag + 1
    /\ otherEdits' = otherEdits + 1
    /\ UNCHANGED << clientVars, srvArtifacts, tracker, pending, walkVars, iterVars, shapes >>

(***************************************************************************)
(* The outline walk of For_Gemini.py over a JSON document, and the section *)
(* numbers it prints.                                                      *)
(***************************************************************************)
\* entries[uri]: the dictionary keeps the last record of a uri
Entry(doc, u) ==
    doc[CHOOSE i \in RecordsOf(doc, u) : \A j \in RecordsOf(doc, u) : j <= i]

\* json_structure_walk: the events of the recursive iterator, in order
RECURSIVE recursiveiterator(_, _, _)
RECURSIVE ChildrenEvents(_, _)
\* as ChildrenEvents, but only the first child is walked
ChildrenEventsFirstOnly(doc, uris) ==
    IF uris = << >> THEN << >> ELSE recursiveiterator(doc, Head(uris), FALSE)

\* the loop over the children of a record
ChildrenEvents(doc, uris) ==
    IF uris = << >> THEN << >>
    ELSE recursiveiterator(doc, Head(uris), FALSE) \o ChildrenEvents(doc, Tail(uris))

recursiveiterator(doc, uri, suppressyield) ==
    IF RecordsOf(doc, uri) = {} THEN << [event |-> "KeyError", el |-> [uri |-> uri]] >>
    ELSE
    (IF suppressyield THEN << >> ELSE << [event |-> "start", el |-> Entry(doc, uri)] >>)
    \o << [event |-> "startChildren", el |-> Entry(doc, uri)] >>
    \o ChildrenEvents(doc, Entry(doc, uri).childBindings)
    \o << [event |-> "endChildren", el |-> Entry(doc, uri)] >>
    \o (IF suppressyield THEN << >> ELSE << [event |-> "end", el |-> Entry(doc, uri)] >>)

\* the generator is lazy: entries[uri] of a uri without a record raises
\* KeyError when the walk gets there, after the events before it were yielded
UpToKeyError(evs) ==
    LET errs == { i \in 1..Len(evs) : evs[i].event = "KeyError" }
    IN  IF errs = {} THEN evs
        ELSE SubSeq(evs, 1, CHOOSE i \in errs : \A j \in errs : i <= j)

json_structure_walk(rooturi, doc) == UpToKeyError(recursiveiterator(doc, rooturi, TRUE))

\* as SectionOfLevel, but the sub-number is always written
SectionOfLevelAlwaysSub(pair) == ToString(pair[1]) \o "-" \o ToString(pair[2])

\* getsectionnumber: "hn-tn" for a level with a sub-number, "hn" for one
\* without, joined by "."
SectionOfLevel(pair) ==
    IF pair[2] # 0 THEN ToString(pair[1]) \o "-" \o ToString(pair[2])
    ELSE ToString(pair[1])

RECURSIVE getsectionnumber(_)
getsectionnumber(hl) ==
    IF hl = << >> THEN ""
    ELSE IF Len(hl) = 1 THEN SectionOfLevel(hl[1])
    ELSE SectionOfLevel(hl[1]) \o "." \o getsectionnumber(Tail(hl))

\* the JSON document of a structure, the root's record first
JsonRootFirst(root) == << JsonOf(root, TRUE) >> \o JsonForest(root.childBindings)

\* the structures the walk is run on, as the server lists them root first
WalkDocuments == { JsonRootFirst(root) : root \in Structures(MaxWalkNodes) }

\* a JSON document without its record at position j
DropRecord(doc, j) == SubSeq(doc, 1, j - 1) \o SubSeq(doc, j + 1, Len(doc))

\* the documents a structure is walked as: its flat list, and for a small
\* structure also the flat list with the record of one binding missing
WalkInputs(root) ==
    { JsonRootFirst(root) } \cup
    { DropRecord(JsonRootFirst(root), j) :
        j \in { k \in 2..Len(JsonRootFirst(root)) :
                  Len(JsonRootFirst(root)) <= MaxDanglingNodes + 1 } }

InitWalk ==
    /\ script = Gemini
    /\ artifact_type = "Requirement"
    /\ pc = "walk"
    /\ exit_code = -1
    /\ sent = << >>
    /\ thefolder = None
    /\ theshape_u = None
    /\ theartifact_u = None
    /\ theid = None
    /\ modules = << >>
    /\ toinsert_u = None
    /\ modstructure = << >>
    /\ etag = 0
    /\ response = NoResponse
    /\ srvStructure \in Structures(MaxWalkNodes)
    /\ srvEtag = 1
    /\ srvArtifacts = {}
    /\ tracker = "none"
    /\ pending = << >>
    /\ otherEdits = 0
    /\ entries \in WalkInputs(srvStructure)
    /\ it = json_structure_walk(structure_u, entries)
    /\ level = 0
    /\ headinglevel = << >>
    /\ printed = << >>
    /\ IterIdle
    /\ shapes = << >>

\* as HeadingVisited, but the sub-number is kept
HeadingVisitedKeepsSub(hl) == [hl EXCEPT ![Len(hl)] = << @[1] + 1, @[2] >>]

\* the heading number goes up and the sub-number back to 0
HeadingVisited(hl) == [hl EXCEPT ![Len(hl)] = << @[1] + 1, 0 >>]

\* as NonHeadingVisited, but the sub-number of every open level goes up
NonHeadingVisitedAll(hl) == [i \in 1..Len(hl) |-> << hl[i][1], hl[i][2] + 1 >>]

\* the sub-number goes up
NonHeadingVisited(hl) == [hl EXCEPT ![Len(hl)] = << @[1], @[2] + 1 >>]

\* one pass of the loop body for the event "startChildren"
walk_startChildren ==
    /\ pc = "walk"
    /\ it # << >>
    /\ Head(it).event = "startChildren"
    /\ level' = level + 1
    /\ headinglevel' = Append(headinglevel, << 0, 0 >>)
    /\ it' = Tail(it)
    /\ UNCHANGED << clientVars, serverVars, iterVars, shapes, entries, printed >>

\* as walk_endChildren, but the level counter is left alone
walk_endChildrenKeepsLevel ==
    /\ pc = "walk"
    /\ it # << >>
    /\ Head(it).event = "endChildren"
    /\ headinglevel' = SubSeq(headinglevel, 1, Len(headinglevel) - 1)
    /\ it' = Tail(it)
    /\ UNCHANGED << clientVars, serverVars, iterVars, shapes, entries, printed, level >>

\* one pass of the loop body for the event "endChildren"
walk_endChildren ==
    /\ pc = "walk"
    /\ it # << >>
    /\ Head(it).event = "endChildren"
    /\ level' = level - 1
    /\ headinglevel' = SubSeq(headinglevel, 1, Len(headinglevel) - 1)
    /\ it' = Tail(it)
    /\ UNCHANGED << clientVars, serverVars, iterVars, shapes, entries, printed >>

\* one pass of the loop body for the event "start": the numbers of the
\* innermost level change and the section number is printed
walk_start ==
    /\ pc = "walk"
    /\ it # << >>
    /\ Head(it).event = "start"
    /\ headinglevel' = IF Head(it).el.isHeading THEN HeadingVisited(headinglevel)
                       ELSE NonHeadingVisited(headinglevel)
    /\ printed' = Append(printed, getsectionnumber(headinglevel'))
    /\ it' = Tail(it)
    /\ UNCHANGED << clientVars, serverVars, iterVars, shapes, entries, level >>

\* one pass of the loop body for the event "end": nothing changes
walk_end ==
    /\ pc = "walk"
    /\ it # << >>
    /\ Head(it).event = "end"
    /\ it' = Tail(it)
    /\ UNCHANGED << clientVars, serverVars, iterVars, shapes, entries, level, headinglevel, printed >>

\* the generator raises KeyError: For_Gemini.py does not catch it and the
\* interpreter exits 1
walk_KeyError ==
    /\ pc = "walk"
    /\ it # << >>
    /\ Head(it).event = "KeyError"
    /\ Raise
    /\ UNCHANGED << script, artifact_type, thefolder, sent, theshape_u, theartifact_u,
                    theid, modules, toinsert_u, modstructure, etag, response,
                    serverVars, walkVars, iterVars, shapes >>

NextWalk ==
    walk_startChildren \/ walk_endChildren \/ walk_start \/ walk_end \/ walk_KeyError

SpecWalk == InitWalk /\ [][NextWalk]_vars

(***************************************************************************)
(* getsectionnumber on its own: the section number of any stack of pairs.  *)
(***************************************************************************)
\* the stacks of at most MaxLevels pairs of numbers up to MaxCount
Stacks ==
    UNION { [1..n -> (0..MaxCount) \X (0..MaxCount)] : n \in 0..MaxLevels }

InitLabel ==
    /\ script = Gemini
    /\ artifact_type = "Requirement"
    /\ pc = "getsectionnumber"
    /\ exit_code = -1
    /\ sent = << >>
    /\ thefolder = None
    /\ theshape_u = None
    /\ theartifact_u = None
    /\ theid = None
    /\ modules = << >>
    /\ toinsert_u = None
    /\ modstructure = << >>
    /\ etag = 0
    /\ response = NoResponse
    /\ srvStructure = RootBinding(<< >>)
    /\ srvEtag = 1
    /\ srvArtifacts = {}
    /\ tracker = "none"
    /\ pending = << >>
    /\ otherEdits = 0
    /\ entries = << >>
    /\ it = << >>
    /\ level = 0
    /\ headinglevel \in Stacks
    /\ printed = << >>
    /\ IterIdle
    /\ shapes = << >>

\* h = getsectionnumber(headinglevel); print(h)
print_sectionnumber ==
    /\ pc = "getsectionnumber"
    /\ printed' = Append(printed, getsectionnumber(headinglevel))
    /\ pc' = "printed"
    /\ UNCHANGED << script, artifact_type, thefolder, exit_code, sent, theshape_u,
                    theartifact_u, theid, modules, toinsert_u, modstructure, etag,
                    response, serverVars, iterVars, shapes, entries, it, level, headinglevel >>

SpecLabel == InitLabel /\ [][print_sectionnumber]_vars

(***************************************************************************)
(* The element walkers iterwalk and iterwalk1 over an RDF/XML structure,   *)
(* next to json_structure_walk over the flat list of the same structure.   *)
(***************************************************************************)
\* an element of the parsed document: its tag, the uri of the binding it
\* belongs to, and its child elements
Element(tag, about, children) == [tag |-> tag, about |-> about, children |-> children]

\* the Binding element of a binding: its boundArtifact element and its
\* childBindings element, which holds the Binding elements of the children
RECURSIVE ElementOf(_)
ElementOf(b) ==
    Element("Binding", b.about,
            << Element("boundArtifact", b.about, << >>),
               Element("childBindings", b.about,
                       [i \in 1..Len(b.childBindings) |-> ElementOf(b.childBindings[i])]) >>)

\* the structures the walkers are run on
IterStructures ==
    UNION { { RootBinding(Forest(d, [i \in 1..n |-> FALSE], 1, n)) : d \in Depths(n) } :
              n \in 0..MaxIterNodes }

\* an argument that is None, one string, or a list of strings
NoneArg == [kind |-> "None", name |-> "", list |-> << >>]
StrArg(t) == [kind |-> "str", name |-> t, list |-> << >>]
ListArg(l) == [kind |-> "list", name |-> "", list |-> l]

TagArguments ==
    { NoneArg, StrArg("Binding"), ListArg(<< >>), ListArg(<< "Binding" >>),
      ListArg(<< "childBindings", "Binding" >>) }
EventArguments ==
    { NoneArg, ListArg(<< >>), ListArg(<< "start" >>), ListArg(<< "end" >>),
      ListArg(<< "start", "end" >>) }

\* tags = [] if tags is None else tags if type(tags) == list else [tags]
TagList(t) ==
    CASE t.kind = "None" -> << >>
      [] t.kind = "list" -> t.list
      [] t.kind = "str" -> << t.name >>

\* events = events or ["start","end"]
EventList(e) ==
    IF e.kind = "None" \/ e.list = << >> THEN << "start", "end" >> ELSE e.list

\* ( not tags or el.tag in tags ) and event in events
Emits(el, event) ==
    /\ TagList(tags) = << >> \/ el.tag \in SeqToSet(TagList(tags))
    /\ event \in SeqToSet(EventList(events))

\* as NewStack, but the root is put on the stack like any other element
NewStackFresh(root) == << [el |-> root, fresh |-> TRUE, children |-> << >>] >>

\* stack = [[root,list(root)]]: an entry holds an element and its children
\* still to do; fresh stands for None in place of the children
NewStack(root) == << [el |-> root, fresh |-> FALSE, children |-> root.children] >>

\* the script makes each walker for one structure and one pair of arguments
\* and calls the iterator of each walker twice
InitIter ==
    /\ script = Gemini
    /\ artifact_type = "Requirement"
    /\ pc = "iterwalk"
    /\ exit_code = -1
    /\ sent = << >>
    /\ thefolder = None
    /\ theshape_u = None
    /\ theartifact_u = None
    /\ theid = None
    /\ modules = << >>
    /\ toinsert_u = None
    /\ modstructure = << >>
    /\ etag = 0
    /\ response = NoResponse
    /\ srvStructure \in IterStructures
    /\ srvEtag = 1
    /\ srvArtifacts = {}
    /\ tracker = "none"
    /\ pending = << >>
    /\ otherEdits = 0
    /\ entries = JsonRootFirst(srvStructure)
    /\ it = << >>
    /\ level = 0
    /\ headinglevel = << >>
    /\ printed = << >>
    /\ xmlroot = ElementOf(srvStructure)
    /\ tags \in TagArguments
    /\ events \in EventArguments
    /\ stack = NewStack(xmlroot)
    /\ yielded = << >>
    /\ runs = << >>
    /\ shapes = << >>

IterFrame ==
    UNCHANGED << script, artifact_type, thefolder, exit_code, sent, theshape_u,
                 theartifact_u, theid, modules, toinsert_u, modstructure, etag,
                 response, serverVars, walkVars, xmlroot, tags, events, shapes >>

\* iterwalk, children is None: the start of the element on top
iterwalk_start ==
    /\ pc = "iterwalk"
    /\ stack # << >>
    /\ stack[Len(stack)].fresh
    /\ LET elnow == stack[Len(stack)].el
       IN  /\ yielded' = IF Emits(elnow, "start")
                         THEN Append(yielded, [event |-> "start", el |-> elnow])
                         ELSE yielded
           /\ stack' = [stack EXCEPT ![Len(stack)] =
                           [el |-> elnow, fresh |-> FALSE, children |-> elnow.children]]
    /\ UNCHANGED << pc, runs >>
    /\ IterFrame

\* iterwalk, len(children)>0: the first child is taken off and pushed
iterwalk_child ==
    /\ pc = "iterwalk"
    /\ stack # << >>
    /\ ~ stack[Len(stack)].fresh
    /\ Len(stack[Len(stack)].children) > 0
    /\ LET thischild == Head(stack[Len(stack)].children)
       IN  stack' = Append([stack EXCEPT ![Len(stack)].children = Tail(@)],
                           [el |-> thischild, fresh |-> TRUE, children |-> << >>])
    /\ UNCHANGED << pc, yielded, runs >>
    /\ IterFrame

\* iterwalk, no children left: the end of the element on top, and the pop
iterwalk_end ==
    /\ pc = "iterwalk"
    /\ stack # << >>
    /\ ~ stack[Len(stack)].fresh
    /\ Len(stack[Len(stack)].children) = 0
    /\ LET elnow == stack[Len(stack)].el
       IN  yielded' = IF Len(stack) > 1 /\ Emits(elnow, "end")
                      THEN Append(yielded, [event |-> "end", el |-> elnow])
                      ELSE yielded
    /\ stack' = SubSeq(stack, 1, Len(stack) - 1)
    /\ UNCHANGED << pc, runs >>
    /\ IterFrame

\* iterwalk, the stack is empty: the call of the iterator is over; the
\* script calls the iterator a second time, then goes on to iterwalk1
iterwalk_return ==
    /\ pc = "iterwalk"
    /\ stack = << >>
    /\ runs' = Append(runs, [walker |-> "iterwalk", pairs |-> yielded])
    /\ yielded' = << >>
    /\ pc' = IF Len(runs) = 0 THEN "iterwalk" ELSE "iterwalk1"
    /\ UNCHANGED stack
    /\ IterFrame

\* iterwalk1: the pairs the recursive generator yields for an element
RECURSIVE recursiveiterator1(_, _)
recursiveiterator1(el, suppressyield) ==
    LET RECURSIVE OfChildren(_)
        OfChildren(kids) ==
            IF kids = << >> THEN << >>
            ELSE recursiveiterator1(Head(kids), FALSE) \o OfChildren(Tail(kids))
    IN  (IF ~ suppressyield /\ Emits(el, "start")
         THEN << [event |-> "start", el |-> el] >> ELSE << >>)
        \o OfChildren(el.children)
        \o (IF ~ suppressyield /\ Emits(el, "end")
            THEN << [event |-> "end", el |-> el] >> ELSE << >>)

\* as iterwalk1, but the root's own events are not held back
iterwalk1Unsuppressed(root) == recursiveiterator1(root, FALSE)

iterwalk1(root) == recursiveiterator1(root, TRUE)

\* one call of the iterator of iterwalk1, run to its end
iterwalk1_call ==
    /\ pc = "iterwalk1"
    /\ runs' = Append(runs, [walker |-> "iterwalk1", pairs |-> iterwalk1(xmlroot)])
    /\ pc' = IF Len(runs) = 2 THEN "iterwalk1" ELSE "json_structure_walk"
    /\ UNCHANGED << stack, yielded >>
    /\ IterFrame

\* one call of the iterator of json_structure_walk, run to its end
json_structure_walk_call ==
    /\ pc = "json_structure_walk"
    /\ runs' = Append(runs, [walker |-> "json_structure_walk",
                             pairs |-> json_structure_walk(structure_u, entries)])
    /\ pc' = "walked"
    /\ UNCHANGED << stack, yielded >>
    /\ IterFrame

NextIter ==
    \/ iterwalk_start
    \/ iterwalk_child
    \/ iterwalk_end
    \/ iterwalk_return
    \/ iterwalk1_call
    \/ json_structure_walk_call

SpecIter == InitIter /\ [][NextIter]_vars

Next ==
    \/ find_folder
    \/ find_shape
    \/ post_artifact
    \/ get_identifier
    \/ find_module
    \/ find_artifact
    \/ get_structure
    \/ get_etag
    \/ insert_binding
    \/ put_structure
    \/ check_status
    \/ wait_for_tracker
    \/ finish
    \/ TrackerEnds
    \/ OtherClientEdit

Spec == Init /\ [][Next]_vars

(***************************************************************************)
(* The binding functions on their own: bind_artifact_to_module (V4),       *)
(* bind_artifact_to_module_structure (V2) and the inline code of           *)
(* For_Gemini.py, called with any reference of the artifact to bind.       *)
(***************************************************************************)
\* the references the caller may hand over: headers.get('Location') of a
\* response without the header is None
ArtifactReferences == { None, "", NewArtifactUri }

InitBind ==
    /\ script \in Scripts
    /\ artifact_type = "Requirement"
    /\ pc = "get_structure"
    /\ exit_code = -1
    /\ sent = << >>
    /\ thefolder = "folder"
    /\ theshape_u = ShapeUri(1)
    /\ theartifact_u \in ArtifactReferences
    /\ theid = NewArtifactId
    /\ modules = << "MD_1" >>
    /\ toinsert_u = IF script = ReturnV4 THEN None ELSE theartifact_u
    /\ modstructure = << >>
    /\ etag = 0
    /\ response = NoResponse
    /\ srvStructure \in Structures(MaxNodes)
    /\ srvEtag = 1
    /\ srvArtifacts = {}
    /\ tracker = "none"
    /\ pending = << >>
    /\ otherEdits = 0
    /\ WalkIdle
    /\ IterIdle
    /\ shapes = << >>

NextBind ==
    \/ get_structure
    \/ get_etag
    \/ insert_binding
    \/ put_structure
    \/ check_status
    \/ wait_for_tracker
    \/ finish
    \/ TrackerEnds
    \/ OtherClientEdit

SpecBind == InitBind /\ [][NextBind]_vars

\* the steps of the script itself
ScriptStep ==
    \/ find_folder
    \/ find_shape
    \/ post_artifact
    \/ get_identifier
    \/ find_module
    \/ find_artifact
    \/ get_structure
    \/ get_etag
    \/ insert_binding
    \/ put_structure
    \/ check_status
    \/ wait_for_tracker
    \/ finish

\* the interpreter keeps running the script: a step the script can take is
\* taken.  Nothing makes the server end a job or another client edit.
SpecFair == Init /\ [][Next]_vars /\ WF_vars(ScriptStep)
(***************************************************************************)
(* Properties.                                                             *)
(***************************************************************************)
\* number of PUT requests among the requests sent
Puts == Cardinality({ i \in 1..Len(sent) : sent[i].method = "PUT" })

\* the step in which the update is submitted
SubmitStep == pc = "put_structure" /\ pc' # "put_structure"

\* the bindings of a structure, in document order
RECURSIVE BindingsOf(_)
BindingsOf(kids) ==
    IF kids = << >> THEN << >>
    ELSE << Head(kids) >> \o BindingsOf(Head(kids).childBindings)
         \o BindingsOf(Tail(kids))

\* number of bindings of a structure bound to an artifact
BoundCount(root, artifact) ==
    Cardinality({ i \in 1..Len(BindingsOf(root.childBindings)) :
                    BindingsOf(root.childBindings)[i].boundArtifact = artifact })

\* C1: an update submitted with an ETag that is no longer the ETag of the
\* structure on the server is answered with 412 (conflict), and the server
\* keeps its structure, its ETag and its job state as they were.
C1_StaleUpdateRejected ==
    [][ (SubmitStep /\ etag # srvEtag)
          => /\ response'.status_code = 412
             /\ srvStructure' = srvStructure
             /\ srvEtag' = srvEtag
             /\ tracker' = tracker
             /\ pending' = pending ]_vars

C1_Witness ==
    /\ Puts = 1
    /\ response.status_code = 412
    /\ etag # srvEtag
    /\ otherEdits >= 1

\* C2: the ETag sent with the update is the ETag of the snapshot that was
\* changed, so no submission of the script removes a binding that another
\* client added: the number of bindings of the other client's artifact in the
\* server's structure never goes down.
C2_NoLostUpdate ==
    [][ BoundCount(srvStructure', OtherArtifact) >= BoundCount(srvStructure, OtherArtifact) ]_vars

\* C3: at most one update request is sent in a run, and a run whose update
\* was answered with 412 (conflict) ends in failure.
C3_ConflictFailsWithoutRetry ==
    /\ Puts <= 1
    /\ (pc = "done" /\ response.status_code = 412) => exit_code = 1

\* C4: the exit code is 0 only when the artifact was created and the update
\* was accepted (status 200, 201 or 202).
C4_ExitZeroOnlyOnSuccess ==
    exit_code = 0 =>
        /\ srvArtifacts # {}
        /\ response.status_code \in { 200, 201, 202 }

\* the records of a JSON document that list uri u as a child
ParentsInJson(doc, u) ==
    { i \in 1..Len(doc) : \E k \in 1..Len(doc[i].childBindings) : doc[i].childBindings[k] = u }

\* the new binding is in container c of an RDF/XML document
NewIn(root, c) ==
    \E k \in 1..Len(ContainerOf(root, c)) : ContainerOf(root, c)[k].about = EmptyAbout

\* C5: in the document that is submitted, the new binding is a child of the
\* first binding below the root, and is not a child of the root itself.
C5_AttachedBelowFirstBinding ==
    pc = "put_structure" =>
        IF UsesJson
        THEN LET root == Entry(modstructure, structure_u)
             IN  /\ root.childBindings[1] # tempbinding_u
                 /\ \A i \in ParentsInJson(modstructure, tempbinding_u) :
                        modstructure[i].uri = root.childBindings[1]
        ELSE /\ ~ NewIn(modstructure, 0)
             /\ NewIn(modstructure, 1)

\* the children the root had in the snapshot, before the new binding was put in
RootChildrenBefore ==
    IF UsesJson
    THEN SelectSeq(Entry(modstructure, structure_u).childBindings,
                   LAMBDA u : u # tempbinding_u)
    ELSE SelectSeq(modstructure.childBindings, LAMBDA b : b.about # EmptyAbout)

\* C6: when the snapshot has no binding below the root (so the path to the
\* slot is missing), the script does not get as far as submitting an update.
C6_NoSlotNoUpdate ==
    pc = "put_structure" => Len(RootChildrenBefore) >= 1

\* C7: the step that puts the new binding in leaves one container with its
\* previous children in their previous positions, followed by the new binding.
C7_AppendKeepsOrder ==
    [][ (pc = "insert_binding" /\ pc' = "put_structure")
          => IF UsesJson
             THEN \E i \in 1..Len(modstructure) :
                     modstructure'[i].childBindings =
                        Append(modstructure[i].childBindings, tempbinding_u)
             ELSE \E c \in 0..Len(modstructure.childBindings) :
                     ContainerOf(modstructure', c) =
                        Append(ContainerOf(modstructure, c), new_binding_xml(ArtifactToBind))
      ]_vars

C7_Witness ==
    /\ pc = "put_structure"
    /\ script = ReturnV4
    /\ Len(ContainerOf(modstructure, 1)) >= 2
    /\ ContainerOf(modstructure, 1)[1].about = BindingUri(2)
    /\ ContainerOf(modstructure, 1)[2].about = EmptyAbout

\* a structure without the bindings of the artifact created in this run
RECURSIVE WithoutNew(_)
WithoutNew(kids) ==
    IF kids = << >> THEN << >>
    ELSE IF Head(kids).boundArtifact = NewArtifactUri THEN WithoutNew(Tail(kids))
    ELSE << [Head(kids) EXCEPT !.childBindings = WithoutNew(@)] >> \o WithoutNew(Tail(kids))

\* the module root -> heading H1 -> no children
H1Module ==
    RootBinding(<< [about |-> BindingUri(1), isHeading |-> TRUE,
                    boundArtifact |-> ArtifactUri(1), childBindings |-> << >>] >>)

\* C8: for the module root -> H1 -> no children and no other client, after a
\* run that created a Requirement, ended with exit code 0 and whose update the
\* server has stored, the children of H1 are exactly one binding, bound to the
\* artifact created in the run.
C8_BoundBelowH1 ==
    (/\ exit_code = 0
     /\ artifact_type = "Requirement"
     /\ otherEdits = 0
     /\ BoundCount(srvStructure, NewArtifactUri) >= 1
     /\ RootBinding(WithoutNew(srvStructure.childBindings)) = H1Module)
    => /\ Len(srvStructure.childBindings[1].childBindings) = 1
       /\ srvStructure.childBindings[1].childBindings[1].boundArtifact = NewArtifactUri

\* the JSON document of a structure whose bindings below the root are given
\* by a depth sequence and heading flags
WalkDocument(d, h) ==
    << JsonOf(RootBinding(Forest(d, h, 1, Len(d))), TRUE) >>
    \o JsonForest(Forest(d, h, 1, Len(d)))

\* C9: walking root -> heading H1 -> one leaf prints 1-1 for the leaf.
C9_LeafBelowHeadingIs_1_1 ==
    (/\ entries = WalkDocument(<< 1, 2 >>, << TRUE, FALSE >>)
     /\ it = << >>)
    => printed = << "1", "1-1" >>

\* C10: walking a heading, a non-heading, a heading, a non-heading and a
\* non-heading, all directly below the root, prints 1, 1-1, 2, 2-1, 2-2.
C10_SingleLevelLabels ==
    (/\ entries = WalkDocument(<< 1, 1, 1, 1, 1 >>, << TRUE, FALSE, TRUE, FALSE, FALSE >>)
     /\ it = << >>)
    => printed = << "1", "1-1", "2", "2-1", "2-2" >>

C10_Witness ==
    /\ entries = WalkDocument(<< 1, 1, 1, 1, 1 >>, << TRUE, FALSE, TRUE, FALSE, FALSE >>)
    /\ it = << >>
    /\ Len(printed) = 5
    /\ printed[5] = "2-2"

\* C11: walking root -> heading -> heading -> leaf, each in the children of
\* the one before, prints 1, 1.1 and 1.1-1.
C11_NestedLabels ==
    (/\ entries = WalkDocument(<< 1, 2, 3 >>, << TRUE, TRUE, FALSE >>)
     /\ it = << >>)
    => printed = << "1", "1.1", "1.1-1" >>

\* C12: in a run on the JSON form whose snapshot does not have a record
\* flagged as structure root in first place, the GET of the snapshot ends the
\* run in failure; the uri of the new binding is only ever put into the child
\* list of a record flagged as structure root, and an update is only
\* submitted from a snapshot whose first record is flagged so.
C12_RootFlagChecked ==
    [][ UsesJson =>
          /\ (pc = "get_structure" /\ pc' # pc /\ ~ modstructure'[1].isStructureRoot)
                => (pc' = "done" /\ exit_code' = 1 /\ Puts = 0)
          /\ \A i \in ParentsInJson(modstructure', tempbinding_u) :
                modstructure'[i].isStructureRoot
          /\ SubmitStep => modstructure[1].isStructureRoot ]_vars

C12_Witness ==
    /\ UsesJson
    /\ pc = "done"
    /\ exit_code = 1
    /\ modstructure # << >>
    /\ ~ modstructure[1].isStructureRoot
    /\ Puts = 0

\* the bindings of a structure in document order, each with its depth below
\* the root; the sequence determines the nodes, the parent of each node (the
\* nearest earlier node one level up) and the order of the siblings
RECURSIVE PreOrder(_, _)
PreOrder(kids, depth) ==
    IF kids = << >> THEN << >>
    ELSE << [binding |-> Head(kids), depth |-> depth] >>
         \o PreOrder(Head(kids).childBindings, depth + 1)
         \o PreOrder(Tail(kids), depth)

Sent(method, target) == { i \in 1..Len(sent) : sent[i] = Request(method, target) }

\* C14: a run that ends with exit code 0 after its update was answered with
\* 202 and the location of a job has polled the job and has, after that,
\* fetched the structure again.
C14_PolledThenRefetched ==
    (/\ pc = "done"
     /\ exit_code = 0
     /\ response.status_code = 202
     /\ response.Location # None)
    => \E i \in Sent("GET", "tracker") : \E j \in Sent("GET", "structure") : i < j

\* C15: every run ends, whether or not the job of an accepted update ever
\* ends.
C15_RunEnds == <>(pc = "done")

\* the state of the update protocol the script is in, read from where the
\* script is: the answer to the update is classified by the branch the script
\* takes on it
ProtocolState ==
    CASE pc \in { "get_etag", "insert_binding" } -> "Fetched"
      [] pc = "put_structure" -> "Mutated"
      [] pc = "check_status" -> "Submitted"
      [] pc = "wait_for_tracker" -> "Pending"
      [] pc = "finish" -> "Applied"
      [] pc = "done" /\ exit_code = 0 -> "Applied"
      [] pc = "done" /\ exit_code # 0 /\ Puts >= 1 -> "Conflicted"
      [] pc = "done" /\ exit_code # 0 /\ Puts = 0 -> "Failed"
      [] OTHER -> "Idle"

ProtocolMoves ==
    { << "Idle", "Fetched" >>, << "Idle", "Failed" >>,
      << "Fetched", "Mutated" >>, << "Fetched", "Failed" >>,
      << "Mutated", "Submitted" >>, << "Mutated", "Conflicted" >>,
      << "Submitted", "Applied" >>, << "Submitted", "Pending" >>,
      << "Submitted", "Conflicted" >>,
      << "Pending", "Applied" >>, << "Pending", "TimedOut" >> }

\* C16: the protocol state changes only along Fetched -> Mutated -> Submitted
\* -> (Applied | Pending -> Applied | Pending -> TimedOut | Conflicted); once
\* it is Applied, Conflicted or TimedOut it stays so and no update is sent.
C16_ProtocolOrder ==
    [][ /\ ProtocolState' # ProtocolState
           => << ProtocolState, ProtocolState' >> \in ProtocolMoves
        /\ ProtocolState \in { "Applied", "Conflicted", "TimedOut" }
           => /\ ProtocolState' = ProtocolState
              /\ Sent("PUT", "structure")' = Sent("PUT", "structure") ]_vars

C16_Witness ==
    /\ ProtocolState = "Applied"
    /\ pc = "done"
    /\ Sent("GET", "tracker") # {}
    /\ tracker = "complete"

\* the loop over the shapes ends without a shape exactly when no title in
\* the list equals the type, letter for letter
ExactTitleOrNone ==
    \A s \in Scripts, titles \in ShapeLists, type \in ShapeTitles :
        (ChosenShape(s, titles, type) = None)
            <=> ~ \E i \in 1..Len(titles) : titles[i] = type

\* C17: a run whose folder lookup found no folder, or whose loop over the
\* shapes found no title equal to the type, has ended with exit code 1, and
\* no run without a folder or without a shape has sent the creation request.
C17_FailsBeforeCreation ==
    /\ ExactTitleOrNone
    /\ (pc # "find_folder" /\ thefolder = None) => (pc = "done" /\ exit_code = 1)
    /\ (pc \notin { "find_folder", "find_shape" } /\ theshape_u = None)
          => (pc = "done" /\ exit_code = 1)
    /\ (thefolder = None \/ theshape_u = None) => Sent("POST", "factory") = {}

C17_Witness ==
    /\ thefolder # None
    /\ theshape_u = None
    /\ pc = "done"
    /\ exit_code = 1
    /\ Sent("GET", "shapes") # {}
    /\ Sent("POST", "factory") = {}

\* C18: a run whose creation request was not answered with 201 has ended
\* with exit code 1 without a GET or PUT of a module structure; and a run
\* that has sent a PUT of the structure has, before it, had its creation
\* answered with 201 and read the identifier of the created artifact.
C18_UpdateOnlyAfterCreation ==
    /\ (Sent("POST", "factory") # {} /\ srvArtifacts = {})
          => /\ pc = "done"
             /\ exit_code = 1
             /\ Sent("GET", "structure") = {}
             /\ Sent("PUT", "structure") = {}
    /\ Sent("PUT", "structure") # {}
          => /\ \E a \in srvArtifacts : a.uri = theartifact_u /\ a.identifier = theid
             /\ \E i \in Sent("POST", "factory") : \E j \in Sent("GET", "artifact") :
                   \A k \in Sent("PUT", "structure") : i < j /\ j < k

C18_Witness ==
    /\ Sent("POST", "factory") # {}
    /\ srvArtifacts = {}
    /\ pc = "done"
    /\ exit_code = 1

\* the methods of the requests sent
MethodsSent == { sent[i].method : i \in 1..Len(sent) }

\* C19: a run that has created the artifact and has ended without an accepted
\* update (no module, no insertion point, or an update answered with a status
\* other than 200, 201, 202) has ended with exit code 1; the artifact is
\* still on the server, not bound in the structure, and the run has sent
\* nothing but GET, POST, query and PUT requests.
C19_CreatedStaysUnboundOnFailure ==
    (/\ pc = "done"
     /\ srvArtifacts # {}
     /\ response.status_code \notin { 200, 201, 202 })
    => /\ exit_code = 1
       /\ \E a \in srvArtifacts : a.uri = NewArtifactUri
       /\ BoundCount(srvStructure, NewArtifactUri) = 0
       /\ MethodsSent \subseteq { "GET", "POST", "QUERY", "PUT" }
       /\ Puts <= 1

\* C20: when a run of For_Gemini.py has ended with exit code 0 and the new
\* artifact is bound in the server's structure, the outline has been printed:
\* one section number for each binding of the structure fetched again, the
\* new binding among them.
C20_OutlineAfterBind ==
    (/\ UsesJson
     /\ pc = "done"
     /\ exit_code = 0
     /\ BoundCount(srvStructure, NewArtifactUri) >= 1)
    => /\ Len(printed) = Len(modstructure) - 1
       /\ \E i \in 1..Len(modstructure) : modstructure[i].boundArtifact = NewArtifactUri

\* C21: once the update has been answered with 200 or 201, the script is
\* never in the wait for a job and sends no request to a tracker, it ends
\* with exit code 0, and from the answer on the structure on the server holds
\* a binding of the new artifact.
C21_DirectSuccessNoPoll ==
    response.status_code \in { 200, 201 }
    => /\ pc \in { "check_status", "finish", "done" }
       /\ Sent("GET", "tracker") = {}
       /\ pc = "done" => exit_code = 0
       /\ BoundCount(srvStructure, NewArtifactUri) >= 1

C21_Witness ==
    /\ response.status_code = 200
    /\ pc = "done"
    /\ exit_code = 0
    /\ tracker = "none"

\* C22: once the update has been answered with a status other than 200, 201
\* or 202, the script does not go on as after an applied update (no wait, no
\* closing step) and the run ends with exit code 1.
C22_RejectedUpdateAborts ==
    response.status_code \notin { 0, 200, 201, 202 }
    => /\ pc \in { "check_status", "done" }
       /\ pc = "done" => exit_code = 1

\* the record at position i of a JSON document is flagged as the root
FlaggedRoot(doc, i) == "isStructureRoot" \in DOMAIN doc[i] /\ doc[i].isStructureRoot

\* the places (record, position in its child list) that list uri u as a child
ChildPlaces(doc, u) ==
    { << i, k >> \in (1..Len(doc)) \X (1..(Len(doc) + 1)) :
        k <= Len(doc[i].childBindings) /\ doc[i].childBindings[k] = u }

\* following the parent from record i leads to the root in at most fuel steps
RECURSIVE ReachesRoot(_, _, _)
ReachesRoot(doc, i, fuel) ==
    IF FlaggedRoot(doc, i) THEN TRUE
    ELSE IF fuel = 0 \/ ChildPlaces(doc, doc[i].uri) = {} THEN FALSE
    ELSE ReachesRoot(doc, (CHOOSE pl \in ChildPlaces(doc, doc[i].uri) : TRUE)[1], fuel - 1)

\* a JSON document is a rooted ordered tree with unique uris
JsonIsTree(doc) ==
    /\ Cardinality({ i \in 1..Len(doc) : FlaggedRoot(doc, i) }) = 1
    /\ \A i, j \in 1..Len(doc) : doc[i].uri = doc[j].uri => i = j
    /\ \A i \in 1..Len(doc) :
          /\ Cardinality(ChildPlaces(doc, doc[i].uri)) = IF FlaggedRoot(doc, i) THEN 0 ELSE 1
          /\ ReachesRoot(doc, i, Len(doc))

\* the uris of an RDF/XML document, the root's included, are all different
XmlUrisUnique(root) ==
    LET a == << root.about >> \o AboutsOf(root.childBindings)
    IN  \A i, j \in 1..Len(a) : a[i] = a[j] => i = j

\* C23: the document the script holds after the append is a rooted ordered
\* tree: one root, every other binding (the new one too) listed as a child
\* exactly once, every binding below the root, no uri used twice.
C23_StillATree ==
    pc \in { "put_structure", "check_status", "wait_for_tracker", "finish" }
    => IF UsesJson THEN JsonIsTree(modstructure) ELSE XmlUrisUnique(modstructure)

C23_Witness ==
    /\ pc = "put_structure"
    /\ UsesJson
    /\ Len(modstructure) = 4
    /\ ChildPlaces(modstructure, tempbinding_u) = { << 1, 2 >> }
    /\ Len(modstructure[2].childBindings) = 1

\* C24: the step that changes the JSON document adds one record, the new
\* one, at the end; every record that was there keeps its place, its uri,
\* heading flag and bound artifact; one of them has the uri of the new record
\* added at the end of its child list and all others keep their child lists;
\* and every uri in a child list of the changed document has a record.
C24_JsonAppendFrame ==
    [][ (UsesJson /\ pc = "insert_binding" /\ pc' = "put_structure")
          => /\ Len(modstructure') = Len(modstructure) + 1
             /\ modstructure'[Len(modstructure')].uri = tempbinding_u
             /\ modstructure'[Len(modstructure')].boundArtifact = ArtifactToBind
             /\ \A i \in 1..Len(modstructure) :
                   /\ modstructure'[i].uri = modstructure[i].uri
                   /\ modstructure'[i].isStructureRoot = modstructure[i].isStructureRoot
                   /\ modstructure'[i].isHeading = modstructure[i].isHeading
                   /\ modstructure'[i].boundArtifact = modstructure[i].boundArtifact
             /\ \E p \in 1..Len(modstructure) :
                   /\ modstructure'[p].childBindings =
                         Append(modstructure[p].childBindings, tempbinding_u)
                   /\ \A i \in (1..Len(modstructure)) \ { p } :
                         modstructure'[i].childBindings = modstructure[i].childBindings
             /\ \A i \in 1..Len(modstructure') :
                   \A k \in 1..Len(modstructure'[i].childBindings) :
                      RecordsOf(modstructure', modstructure'[i].childBindings[k]) # {}
      ]_vars

C24_Witness ==
    /\ UsesJson
    /\ pc = "put_structure"
    /\ Len(modstructure) = 4
    /\ modstructure[4].uri = tempbinding_u
    /\ modstructure[2].childBindings = << BindingUri(2) >>
    /\ modstructure[1].childBindings = << BindingUri(1), tempbinding_u >>

\* a child list of the document names a uri that has no record
Dangling(doc) ==
    \E i \in 1..Len(doc) : \E k \in 1..Len(doc[i].childBindings) :
        RecordsOf(doc, doc[i].childBindings[k]) = {}

\* C25: the walk of a JSON document in which a child list names a uri that
\* has no record prints no section number at all.
C25_NoPartialOutline ==
    Dangling(entries) => printed = << >>

\* C26: the visit of a binding leaves the number of open levels and the pair
\* of every level but the innermost as they were; for a heading the innermost
\* pair becomes [heading number + 1, 0], for any other binding
\* [heading number, sub-number + 1].
C26_VisitChangesTopPairOnly ==
    [][ (pc = "walk" /\ it # << >> /\ Head(it).event = "start" /\ it' = Tail(it))
          => LET n == Len(headinglevel)
             IN  /\ n >= 1
                 /\ Len(headinglevel') = n
                 /\ \A i \in 1..(n - 1) : headinglevel'[i] = headinglevel[i]
                 /\ headinglevel'[n] =
                       IF Head(it).el.isHeading
                       THEN << headinglevel[n][1] + 1, 0 >>
                       ELSE << headinglevel[n][1], headinglevel[n][2] + 1 >> ]_vars

C26_Witness ==
    /\ entries = WalkDocument(<< 1, 2, 2 >>, << TRUE, FALSE, TRUE >>)
    /\ headinglevel = << << 1, 0 >>, << 1, 0 >> >>
    /\ Len(printed) = 3

\* the section number as the claim describes it, built from the innermost
\* level outwards: the heading numbers of the open levels joined with dots,
\* a level written heading-sub exactly when its sub-number is not 0
RECURSIVE LabelOf(_)
LabelOf(hl) ==
    LET n == Len(hl)
        last == IF hl[n][2] = 0 THEN ToString(hl[n][1])
                ELSE ToString(hl[n][1]) \o "-" \o ToString(hl[n][2])
    IN  IF n = 1 THEN last ELSE LabelOf(SubSeq(hl, 1, n - 1)) \o "." \o last

\* C27: for every stack of pairs with at least one level, the section number
\* printed is the one described; for [(2,0),(1,3)] it is 2.1-3.
C27_LabelOfStack ==
    (pc = "printed" /\ headinglevel # << >>)
    => /\ printed = << LabelOf(headinglevel) >>
       /\ headinglevel = << << 2, 0 >>, << 1, 3 >> >> => printed = << "2.1-3" >>

C27_Witness ==
    /\ pc = "printed"
    /\ headinglevel = << << 2, 0 >>, << 1, 3 >> >>
    /\ printed = << "2.1-3" >>

\* every pair of the entering kind is matched by a later pair of the leaving
\* kind for the same element, properly nested; open holds the unmatched ones
RECURSIVE Nested(_, _, _, _)
Nested(pairs, open, enter, leave) ==
    IF pairs = << >> THEN open = << >>
    ELSE IF Head(pairs).event = enter
         THEN Nested(Tail(pairs), Append(open, Head(pairs).el), enter, leave)
    ELSE IF Head(pairs).event = leave
         THEN /\ open # << >>
              /\ open[Len(open)] = Head(pairs).el
              /\ Nested(Tail(pairs), SubSeq(open, 1, Len(open) - 1), enter, leave)
    ELSE Nested(Tail(pairs), open, enter, leave)

\* the uris of the bindings a run of an element walker has started
BindingStarts(pairs) ==
    LET b == SelectSeq(pairs, LAMBDA p : p.event = "start" /\ p.el.tag = "Binding")
    IN  [i \in 1..Len(b) |-> b[i].el.about]

\* the uris of the records a run of the JSON walk has started
RecordStarts(pairs) ==
    LET b == SelectSeq(pairs, LAMBDA p : p.event = "start")
    IN  [i \in 1..Len(b) |-> b[i].el.uri]

\* C28: for every structure, the first call of each walker comes to an end
\* having started every binding below the root exactly once, in document
\* order, and not the root; the events that enter a level and those that
\* leave one are matched and properly nested.  For the element walkers this
\* is said of the arguments that let the events in question through.
C28_WalkPreOrderNested ==
    pc = "walked" =>
        LET order == AboutsOf(srvStructure.childBindings)
        IN  /\ RecordStarts(runs[5].pairs) = order
            /\ Nested(runs[5].pairs, << >>, "startChildren", "endChildren")
            /\ \A r \in { 1, 3 } :
                  /\ Emits([tag |-> "Binding"], "start")
                        => BindingStarts(runs[r].pairs) = order
                  /\ (Emits([tag |-> "childBindings"], "start")
                        /\ Emits([tag |-> "childBindings"], "end"))
                        => Nested(runs[r].pairs, << >>, "start", "end")

C28_Witness ==
    /\ pc = "walked"
    /\ tags = ListArg(<< "childBindings", "Binding" >>)
    /\ events = ListArg(<< "start", "end" >>)
    /\ BindingStarts(runs[1].pairs) = << BindingUri(1), BindingUri(2), BindingUri(3) >>
    /\ Len(srvStructure.childBindings) = 2

\* C29: for every structure and every choice of the tags and events
\* arguments, the first call of iterwalk's iterator and the first call of
\* iterwalk1's iterator yield the same sequence of (event, element) pairs,
\* and neither yields a pair for the root element itself.
C29_WalkersAgree ==
    Len(runs) >= 3 =>
        /\ runs[1].walker = "iterwalk" /\ runs[3].walker = "iterwalk1"
        /\ runs[1].pairs = runs[3].pairs
        /\ \A r \in { 1, 3 } : \A i \in 1..Len(runs[r].pairs) :
              runs[r].pairs[i].el # xmlroot

C29_Witness ==
    /\ Len(runs) >= 3
    /\ tags = StrArg("Binding")
    /\ events = ListArg(<< "end" >>)
    /\ Len(runs[3].pairs) = 3
    /\ Len(srvStructure.childBindings) = 1
    /\ runs[1].pairs = runs[3].pairs

\* C30: the iterator a walker has returned can be called again on the same
\* tree, and the second call yields what the first call yielded; said of
\* iterwalk (runs 1 and 2) and of iterwalk1 (runs 3 and 4).
C30_Restartable ==
    /\ Len(runs) >= 2 => runs[2].pairs = runs[1].pairs
    /\ Len(runs) >= 4 => runs[4].pairs = runs[3].pairs

\* C31: when the titles of several shapes equal the requested type, the
\* shape the script goes on with is the first of them in the order of the
\* server's list.
C31_FirstMatchingShape ==
    (pc = "post_artifact" /\ Cardinality(Matching(shapes, artifact_type)) > 1) =>
        theshape_u = ShapeUri(CHOOSE i \in Matching(shapes, artifact_type) :
                                 \A j \in Matching(shapes, artifact_type) : i <= j)

\* C32: the payload of the creation has the heading markers among its
\* types exactly when the requested type is "Heading".
C32_HeadingMarkersIffHeading ==
    \A a \in srvArtifacts :
        IF artifact_type = "Heading"
        THEN HeadingMarkers \subseteq a.payload.types
        ELSE HeadingMarkers \cap a.payload.types = {}

\* C33: when the reference of the artifact to bind is None or empty, the
\* binding function fails before it has built a binding: its document is
\* never changed, no update is sent, and it does not end well.
C33_NoBindingWithoutReference ==
    ArtifactToBind \in { None, "" } =>
        /\ pc \notin { "put_structure", "check_status", "wait_for_tracker", "finish" }
        /\ "PUT" \notin MethodsSent
        /\ exit_code # 0

\* C34: all through the walk of a well-formed structure the level counter
\* is the number of pairs on the numbering stack; the stack is not empty
\* when a binding is visited nor when a level is left (no pop of an empty
\* stack); and when the walk has ended the stack is empty again.
C34_StackDiscipline ==
    (pc = "walk" /\ entries = JsonRootFirst(srvStructure)) =>
        /\ level = Len(headinglevel)
        /\ (it # << >> /\ Head(it).event \in { "start", "endChildren" })
              => headinglevel # << >>
        /\ it = << >> => headinglevel = << >>

C34_Witness ==
    /\ pc = "walk"
    /\ entries = WalkDocument(<< 1, 2, 3 >>, << TRUE, TRUE, FALSE >>)
    /\ it = << >>
    /\ headinglevel = << >>
    /\ level = 0
    /\ Len(printed) = 3

\* C35: a binding below the root of the server's structure that has the
\* binding of the new artifact among its children is a heading.
C35_NewBindingUnderHeading ==
    \A i \in 1..Len(BindingsOf(srvStructure.childBindings)) :
        LET b == BindingsOf(srvStructure.childBindings)[i]
        IN  (\E k \in 1..Len(b.childBindings) :
                b.childBindings[k].boundArtifact = NewArtifactUri)
            => b.isHeading

\* C36: a run whose update was answered with 200, 201 or 202 and that has
\* ended with the report of success (exit code 0) has its binding in the
\* server's structure: the job is neither still running nor has it failed.
C36_SuccessOnlyWhenApplied ==
    (exit_code = 0 /\ response.status_code \in { 200, 201, 202 }) =>
        /\ BoundCount(srvStructure, NewArtifactUri) >= 1
        /\ tracker \notin { "running", "failed" }

\* C37: once the module query has been answered, a run whose query matched
\* no module or more than one has ended with exit code 1, and has neither
\* fetched nor updated a structure.
C37_ExactlyOneModule ==
    (pc # "find_module" /\ "QUERY" \in MethodsSent /\ Len(modules) # 1) =>
        /\ pc = "done" /\ exit_code = 1
        /\ Sent("GET", "structure") = {}
        /\ "PUT" \notin MethodsSent
====
